---------------------------- MODULE Spec2Model ----------------------------
(***************************************************************************)
(* Model of app.py of Qwen-Image-Diffusion: the LoRA resolver              *)
(* load_lora_opt, the generation orchestrator generate_qwen and the        *)
(* adapter state of the shared pipeline pipe_qwen.                         *)
(*                                                                         *)
(* Python strings are sequences of one-character strings, so that strip,   *)
(* startswith, "in", replace, urlparse and basename are computed on the    *)
(* characters as the code computes them.                                   *)
(***************************************************************************)
EXTENDS Integers, Sequences, FiniteSets, TLC

VARIABLES
    pipe_qwen,   \* the shared pipeline: attached adapters, active adapters, LoRA switch
    tmp_dirs,    \* temporary directories that exist (tempfile.mkdtemp / shutil.rmtree)
    tmp_next,    \* source of fresh temporary directory names
    files,       \* files in the working directory: name -> content
    uuid_next,   \* source of fresh uuid4 values
    nreq,        \* number of requests started so far
    pc,          \* per worker: position inside generate_qwen
    req,         \* per worker: parameters and locals of its generate_qwen call
    lora_in,     \* resolver harness: the string handed to load_lora_opt
    lora_res     \* resolver harness: what the call did

vars == <<pipe_qwen, tmp_dirs, tmp_next, files, uuid_next, nreq, pc, req, lora_in, lora_res>>

---------------------------------------------------------------------------
(* Bounds of the model *)

\* longest generated resolver input, in tokens of Tokens
MaxTokens == 3
\* requests started in one behaviour of Spec, of SpecOut and of SpecConc
MaxRequests == 2
MaxRequestsOut == 2
MaxRequestsConc == 2
\* largest num_images of a request
MaxImages == 2

---------------------------------------------------------------------------
(* Python string operations, on sequences of characters *)

Whitespace == {" ", "\t", "\n", "\r", "\f"}

Min2(a, b) == IF a < b THEN a ELSE b

\* s[i:] with a 1-based i
Drop(s, i) == SubSeq(s, i, Len(s))
\* s[:n]
Take(s, n) == SubSeq(s, 1, Min2(n, Len(s)))

\* s.startswith(p)
StartsWith(s, p) == Len(p) <= Len(s) /\ SubSeq(s, 1, Len(p)) = p

\* s.find(p) as a 1-based index, 0 when p does not occur in s
Find(s, p) ==
    LET hits == {i \in 1..(Len(s) - Len(p) + 1) : SubSeq(s, i, i + Len(p) - 1) = p}
    IN  IF hits = {} THEN 0 ELSE CHOOSE i \in hits : \A j \in hits : i <= j

\* s.rfind(p), 1-based, 0 when absent
RFind(s, p) ==
    LET hits == {i \in 1..(Len(s) - Len(p) + 1) : SubSeq(s, i, i + Len(p) - 1) = p}
    IN  IF hits = {} THEN 0 ELSE CHOOSE i \in hits : \A j \in hits : i >= j

\* p in s
Contains(s, p) == Find(s, p) # 0

\* s.strip(chars): leading and trailing characters of the set removed
StripChars(s, chars) ==
    LET keep == {i \in 1..Len(s) : s[i] \notin chars}
    IN  IF keep = {} THEN <<>>
        ELSE SubSeq(s, CHOOSE i \in keep : \A j \in keep : i <= j,
                       CHOOSE i \in keep : \A j \in keep : i >= j)

\* s.strip()
Strip(s) == StripChars(s, Whitespace)

\* s.replace(old, new): the non-overlapping occurrences, left to right
RECURSIVE Replace(_, _, _)
Replace(s, old, new) ==
    LET i == Find(s, old)
    IN  IF i = 0 \/ old = <<>> THEN s
        ELSE SubSeq(s, 1, i - 1) \o new \o Replace(Drop(s, i + Len(old)), old, new)

\* the characters of s that are not in chars
RECURSIVE Without(_, _)
Without(s, chars) ==
    IF s = <<>> THEN <<>>
    ELSE (IF Head(s) \in chars THEN <<>> ELSE <<Head(s)>>) \o Without(Tail(s), chars)

\* os.path.basename(p): what follows the last "/"
Basename(p) == Drop(p, RFind(p, <<"/">>) + 1)

UpperCase == <<"A","B","C","D","E","F","G","H","I","J","K","L","M",
               "N","O","P","Q","R","S","T","U","V","W","X","Y","Z">>
LowerCase == <<"a","b","c","d","e","f","g","h","i","j","k","l","m",
               "n","o","p","q","r","s","t","u","v","w","x","y","z">>
Digits == {"0","1","2","3","4","5","6","7","8","9"}
Range(f) == {f[i] : i \in DOMAIN f}
Letters == Range(UpperCase) \cup Range(LowerCase)

\* s.lower()
Lower(s) ==
    [i \in 1..Len(s) |->
        IF s[i] \in Range(UpperCase)
        THEN LowerCase[CHOOSE k \in 1..26 : UpperCase[k] = s[i]]
        ELSE s[i]]

---------------------------------------------------------------------------
(* urllib.parse.urlparse, as far as load_lora_opt uses it: whether it      *)
(* raises ValueError, and the path component of the result.                *)

SchemeChars == Letters \cup Digits \cup {"+", "-", "."}
\* the schemes of urllib's uses_params a string starting with "http" can have
UsesParams == { <<>>, <<"h","t","t","p">>, <<"h","t","t","p","s">> }

\* the url after urlsplit's removal of leading blanks and of tab, CR, LF
UrlClean(url) == Without(url, {"\t", "\r", "\n"})

\* [scheme, rest]: the scheme is split off when the text before the first ":"
\* starts with a letter and holds scheme characters only
UrlScheme(url) ==
    LET i == Find(url, <<":">>)
    IN  IF i > 1 /\ url[1] \in Letters /\ \A k \in 1..(i - 1) : url[k] \in SchemeChars
        THEN [scheme |-> Lower(Take(url, i - 1)), rest |-> Drop(url, i + 1)]
        ELSE [scheme |-> <<>>, rest |-> url]

\* index of the first of "/", "?", "#" at or after position from, Len+1 when none
NetlocEnd(s, from) ==
    LET stops == {k \in from..Len(s) : s[k] \in {"/", "?", "#"}}
    IN  IF stops = {} THEN Len(s) + 1 ELSE CHOOSE k \in stops : \A j \in stops : k <= j

\* [netloc, rest]: "//netloc" is split off when present
UrlNetloc(rest) ==
    IF StartsWith(rest, <<"/", "/">>)
    THEN LET e == NetlocEnd(rest, 3)
         IN  [has |-> TRUE, netloc |-> SubSeq(rest, 3, e - 1), rest |-> Drop(rest, e)]
    ELSE [has |-> FALSE, netloc |-> <<>>, rest |-> rest]

\* the text between "[" and "]" of a netloc holding both
BracketedHost(netloc) ==
    LET after == Drop(netloc, Find(netloc, <<"[">>) + 1)
        j == Find(after, <<"]">>)
    IN  IF j = 0 THEN after ELSE Take(after, j - 1)

\* urlparse raises ValueError: an unbalanced bracket in the netloc, or a
\* bracketed host that is no IP literal (every IP literal holds ":" or ".")
UrlParseRaises(url) ==
    LET n == UrlNetloc(UrlScheme(UrlClean(url)).rest)
        open == Contains(n.netloc, <<"[">>)
        close == Contains(n.netloc, <<"]">>)
    IN  /\ n.has
        /\ \/ open /\ ~close
           \/ close /\ ~open
           \/ /\ open /\ close
              /\ ~Contains(BracketedHost(n.netloc), <<":">>)
              /\ ~Contains(BracketedHost(n.netloc), <<".">>)

\* s up to the first occurrence of c (all of s when c is absent)
Before(s, c) == LET i == Find(s, <<c>>) IN IF i = 0 THEN s ELSE Take(s, i - 1)

\* _splitparams: the path without the ";params" of its last segment
SplitParams(p) ==
    LET slash == RFind(p, <<"/">>)
        tail == Drop(p, slash + 1)
        i == Find(tail, <<";">>)
    IN  IF i = 0 THEN p ELSE Take(p, slash + i - 1)

\* urlparse(url).path
UrlPath(url) ==
    LET sc == UrlScheme(UrlClean(url))
        n == UrlNetloc(sc.rest)
        p == Before(Before(n.rest, "#"), "?")
    IN  IF sc.scheme \in UsesParams /\ Contains(p, <<";">>) THEN SplitParams(p) ELSE p


---------------------------------------------------------------------------
(* The pipeline object, as far as app.py uses it.  An attached adapter is  *)
(* [name, ref, by]: its adapter name, the reference its weights came from  *)
(* and the number of the request that loaded it.                           *)

\* a reference handed to load_lora_weights, requests.get or the file system
HubRef(id) == [kind |-> "hub", id |-> id, dir |-> 0]
FileRef(dir, name) == [kind |-> "file", id |-> name, dir |-> dir]
UrlRef(url) == [kind |-> "url", id |-> url, dir |-> 0]
DirRef(dir) == [kind |-> "dir", id |-> <<>>, dir |-> dir]

\* the pipeline of DiffusionPipeline.from_pretrained: nothing attached
FreshPipe == [adapters |-> {}, active |-> {}, lora_disabled |-> FALSE]

\* pipe.get_list_adapters(): the names of the attached adapters
get_list_adapters(pipe) == {a.name : a \in pipe.adapters}

\* pipe.delete_adapters(name)
delete_adapters(pipe, name) ==
    [pipe EXCEPT !.adapters = {a \in @ : a.name # name},
                 !.active = {a \in @ : a.name # name}]

\* pipe.disable_lora()
disable_lora(pipe) == [pipe EXCEPT !.lora_disabled = TRUE]

\* for adapter in names: pipe.delete_adapters(adapter)
RECURSIVE delete_each(_, _)
delete_each(pipe, names) ==
    IF names = {} THEN pipe
    ELSE LET n == CHOOSE x \in names : TRUE
         IN  delete_each(delete_adapters(pipe, n), names \ {n})

\* the adapter clean-up of generate_qwen: list, delete each, disable
clear_adaptersBadKeep(pipe) == disable_lora(pipe)
clear_adapters(pipe) == disable_lora(delete_each(pipe, get_list_adapters(pipe)))

\* "default", the adapter name of app.py
DEFAULT == <<"d","e","f","a","u","l","t">>

\* the adapter name every load of load_lora_opt uses
AdapterNameBadId(ref) == ref.id
AdapterName(ref) == DEFAULT

\* pipe.load_lora_weights(ref, adapter_name=...): the outcomes.  A name in
\* use is refused; otherwise the load succeeds, or raises (unknown
\* reference, network, bad weights) and leaves the pipeline as it was.
load_lora_weights(pipe, ref, adapter_name, by) ==
    LET added == [pipe EXCEPT !.adapters = @ \cup {[name |-> adapter_name, ref |-> ref, by |-> by]}]
    IN  IF adapter_name \in get_list_adapters(pipe)
        THEN {[pipe |-> pipe, raised |-> TRUE]}
        ELSE {[pipe |-> added, raised |-> FALSE],
              [pipe |-> pipe, raised |-> TRUE]}

\* pipe.set_adapters(names, adapter_weights=[weight]): the outcome.  Naming
\* an adapter that is not attached raises and changes nothing.
set_adapters(pipe, name, weight) ==
    IF name \in get_list_adapters(pipe)
    THEN [pipe |-> [pipe EXCEPT !.active = {[name |-> name, weight |-> weight]}],
          raised |-> FALSE]
    ELSE [pipe |-> pipe, raised |-> TRUE]

---------------------------------------------------------------------------
(* load_lora_opt *)

HTTP == <<"h","t","t","p">>
SCHEME_SEP == <<":","/","/">>
HF_HOST == <<"h","u","g","g","i","n","g","f","a","c","e",".","c","o">>
BLOB == <<"/","b","l","o","b","/">>
RESOLVE == <<"/","r","e","s","o","l","v","e","/">>

Call(op, ref) == [op |-> op, ref |-> ref]

\* what one call of load_lora_opt did: the pipeline after it, the temporary
\* directories that exist after it, the library calls it made, and whether
\* it raised
Outcome(pipe, dirs, log, raised) ==
    [pipe |-> pipe, dirs |-> dirs, log |-> log, raised |-> raised]

\* pipe.load_lora_weights(ref, adapter_name="default") as the last statement
\* of a branch, after the calls of log
LoadAndReturn(pipe, ref, dirs, log, by) ==
    {Outcome(r.pipe, dirs, Append(log, Call("load_lora_weights", ref)), r.raised) :
        r \in load_lora_weights(pipe, ref, AdapterName(ref), by)}

\* requests.get(url) can answer only for an http:// or https:// url
CanFetch(url) ==
    StartsWith(url, HTTP \o SCHEME_SEP) \/ StartsWith(url, HTTP \o <<"s">> \o SCHEME_SEP)

\* the body of the try block, lines 79-86: the outcomes [pipe, log, raised]
TryDownload(pipe, url, local_path, log, by) ==
    LET got == Append(log, Call("requests.get", UrlRef(url)))
        opened == Append(got, Call("open", local_path))
        loaded == Append(opened, Call("load_lora_weights", local_path))
    IN  \* requests.get or raise_for_status raises
        {[pipe |-> pipe, log |-> got, raised |-> TRUE]}
        \cup
        \* open(local_path, "wb") or a write raises; a path ending in "/"
        \* names the directory itself and cannot be opened
        (IF CanFetch(url) THEN {[pipe |-> pipe, log |-> opened, raised |-> TRUE]} ELSE {})
        \cup
        (IF CanFetch(url) /\ local_path.id # <<>>
         THEN {[pipe |-> r.pipe, log |-> loaded, raised |-> r.raised] :
                  r \in load_lora_weights(pipe, local_path, AdapterName(local_path), by)}
         ELSE {})

\* the finally clause, line 88: shutil.rmtree(tmp_dir, ignore_errors=True)
RmTree(dirs, tmp_dir) == dirs \ {tmp_dir}

\* lines 74-88: download the file into a fresh temporary directory and load it
Download(pipe, url, dirs, fresh, by) ==
    LET made == dirs \cup {fresh}
        log == <<Call("mkdtemp", DirRef(fresh))>>
    IN  IF UrlParseRaises(url)
        THEN \* line 76 raises between mkdtemp and the try block
             {Outcome(pipe, made, log, TRUE)}
        ELSE LET local_path == FileRef(fresh, Basename(UrlPath(url)))
             IN  {Outcome(t.pipe, RmTree(made, fresh),
                          Append(t.log, Call("rmtree", DirRef(fresh))), t.raised) :
                     t \in TryDownload(pipe, url, local_path, log, by)}

\* load_lora_opt(pipe, lora_input): the set of its outcomes.  dirs are the
\* temporary directories present, fresh the name mkdtemp would give, by the
\* number of the calling request.
load_lora_opt(pipe, lora_input, dirs, fresh, by) ==
    LET s == Strip(lora_input)
    IN  IF s = <<>> THEN {Outcome(pipe, dirs, <<>>, FALSE)}
        ELSE IF Contains(s, <<"/">>) /\ ~StartsWith(s, HTTP)
        THEN LoadAndReturn(pipe, HubRef(s), dirs, <<>>, by)
        ELSE IF StartsWith(s, HTTP)
        THEN IF Contains(s, HF_HOST) /\ ~Contains(s, BLOB) /\ ~Contains(s, RESOLVE)
             THEN IF UrlParseRaises(s)
                  THEN {Outcome(pipe, dirs, <<>>, TRUE)}
                  ELSE LoadAndReturn(pipe, HubRef(StripChars(UrlPath(s), {"/"})), dirs, <<>>, by)
             ELSE Download(pipe, IF Contains(s, BLOB) THEN Replace(s, BLOB, RESOLVE) ELSE s,
                           dirs, fresh, by)
        ELSE \* neither an id with "/" nor an http string: falls off the end
             {Outcome(pipe, dirs, <<>>, FALSE)}

---------------------------------------------------------------------------
(* The inputs of the resolver *)

Tokens == << <<" ">>, <<"a">>, <<"/">>, HTTP, SCHEME_SEP, <<"[">>, BLOB, HF_HOST >>

\* the concatenation of a sequence of strings
RECURSIVE Cat(_)
Cat(ss) == IF ss = <<>> THEN <<>> ELSE Head(ss) \o Cat(Tail(ss))

\* every string of at most n tokens
TokenStrings(n) ==
    UNION {{Cat([i \in 1..k |-> Tokens[f[i]]]) : f \in [1..k -> DOMAIN Tokens]} : k \in 0..n}

\* strings of the kinds section 4.1 of the specification lists
LoraExamples ==
    { <<>>,
      <<" ", " ">>,
      <<"a", "/", "b">>,
      <<" ", "a", "/", "b", " ">>,
      HTTP \o <<"f", "a", "n", "/", "b">>,
      <<"m", "y", "l", "o", "r", "a">>,
      HTTP \o <<"s">> \o SCHEME_SEP \o HF_HOST \o <<"/", "a", "/", "b">>,
      HTTP \o <<"s">> \o SCHEME_SEP \o HF_HOST \o <<"/", "a", "/", "b">> \o BLOB \o <<"m", "/", "f">>,
      HTTP \o SCHEME_SEP \o <<"x", "/", "f">>,
      HTTP \o SCHEME_SEP \o <<"x", "/">>,
      HTTP \o SCHEME_SEP \o <<"[", "x", "/", "f">> }

LoraDomain == TokenStrings(MaxTokens) \cup LoraExamples


---------------------------------------------------------------------------
(* generate_qwen and its callers *)

Workers == {1, 2}

MAX_SEED == 2147483647

\* random.randint(lo, hi): lo <= result <= hi; the range is sampled at both
\* ends and next to them
RandInt(lo, hi) == {lo, lo + 1, hi}

\* seeds a caller can send: the slider's range, and below it through the API
SeedInputs == {-1, 5, MAX_SEED}

\* lora_scale, in hundredths
ScaleInputs == {50, 100}

\* lora inputs of requests
NoLora == <<>>
Blank == <<" ", " ">>
RepoId == <<"a", "/", "b">>
BareName == <<"m", "y", "l", "o", "r", "a">>
FileUrl == HTTP \o SCHEME_SEP \o <<"x", "/", "f">>
BadUrl == HTTP \o SCHEME_SEP \o <<"[", "x", "/", "f">>
LoraInputs == {NoLora, Blank, RepoId, BareName, FileUrl, BadUrl}

\* a saved file is named by a uuid4 and an extension; None is NoPath
FileName(u, ext) == [uuid |-> u, ext |-> ext]
NoPath == FileName(0, "none")

\* the locals of a worker that runs no call.  Beside the parameters and
\* locals of generate_qwen a call records: found, the adapters attached
\* when it began; drawn, the value random.randint
\* gave; overlapped, whether another call ran during this one; invoked and
\* seen, whether the pipeline was called and the adapter state it ran with
NoCall ==
    [id |-> 0, lora_input |-> NoLora, lora_scale |-> 0, seed_in |-> 0,
     randomize_seed |-> FALSE, num_images |-> 0, zip_images |-> FALSE,
     drawn |-> 0, seed |-> 0, generator |-> 0, use_lora |-> FALSE,
     found |-> {}, overlapped |-> FALSE, invoked |-> FALSE, seen |-> FreshPipe, images |-> <<>>, image_paths |-> <<>>, zip_path |-> NoPath,
     result |-> <<>>]

\* a worker inside generate_qwen
Running(w) == pc[w] \notin {"idle", "done", "failed"}

\* demo.queue(...): an event's handler runs one call at a time (the queue's
\* default concurrency limit), so a call starts when every other call has
\* returned or raised and its outcome has been handed to its client
QueueAdmits(w) == \A v \in Workers \ {w} : pc[v] = "idle"

\* lines 107-108: the seed generate_qwen goes on with
EffectiveSeed(seed, randomize_seed, drawn) == IF randomize_seed THEN drawn ELSE seed

\* line 109: torch.Generator(device).manual_seed(seed), as the seed it holds
ManualSeed(seed) == seed

\* generate (lines 158-189) hands its arguments to generate_qwen, which runs
\* lines 107-111: the seed is drawn anew when randomize_seed, and seeds the generator
Begin(w, admits, limit, loras, scales, seeds, rands, counts, zips) ==
    /\ pc[w] = "idle"
    /\ admits
    /\ nreq < limit
    /\ \E lora \in loras, scale \in scales, sd \in seeds, rnd \in rands,
          n \in counts, z \in zips, drawn \in RandInt(0, MAX_SEED) :
          \* the draw happens only when randomize_seed
          /\ ~rnd => drawn = 0
          /\ req' = [v \in Workers |->
                        IF v = w
                        THEN [NoCall EXCEPT !.id = nreq + 1, !.lora_input = lora,
                                            !.lora_scale = scale, !.seed_in = sd,
                                            !.randomize_seed = rnd, !.num_images = n,
                                            !.zip_images = z, !.drawn = drawn,
                                            !.found = get_list_adapters(pipe_qwen),
                                            !.seed = EffectiveSeed(sd, rnd, drawn),
                                            !.generator = ManualSeed(EffectiveSeed(sd, rnd, drawn)),
                                            !.overlapped = \E u \in Workers \ {w} : Running(u)]
                        ELSE IF Running(v) THEN [req[v] EXCEPT !.overlapped = TRUE]
                        ELSE req[v]]
    /\ nreq' = nreq + 1
    /\ pc' = [pc EXCEPT ![w] = "clear"]
    /\ UNCHANGED <<pipe_qwen, tmp_dirs, tmp_next, files, uuid_next, lora_in, lora_res>>

\* line 119: if lora_input and lora_input.strip() != ""
WantsLora(lora_input) == lora_input # <<>> /\ Strip(lora_input) # <<>>

\* lines 113-116 (and use_lora = False): the adapters left attached are removed
ClearAtStartBadSkip(pipe) == pipe
ClearAtStart(pipe) == clear_adapters(pipe)

ClearStart(w) ==
    /\ pc[w] = "clear"
    /\ pipe_qwen' = ClearAtStart(pipe_qwen)
    /\ pc' = [pc EXCEPT ![w] = IF WantsLora(req[w].lora_input) THEN "load" ELSE "pipe"]
    /\ UNCHANGED <<tmp_dirs, tmp_next, files, uuid_next, nreq, req, lora_in, lora_res>>

\* line 120: load_lora_opt(pipe_qwen, lora_input); an exception ends the call
LoadLora(w) ==
    /\ pc[w] = "load"
    /\ \E o \in load_lora_opt(pipe_qwen, req[w].lora_input, tmp_dirs, tmp_next, req[w].id) :
          /\ pipe_qwen' = o.pipe
          /\ tmp_dirs' = o.dirs
          /\ tmp_next' = IF o.log # <<>> /\ o.log[1].op = "mkdtemp" THEN tmp_next + 1 ELSE tmp_next
          /\ pc' = [pc EXCEPT ![w] = IF o.raised THEN "failed" ELSE "set"]
    /\ UNCHANGED <<files, uuid_next, nreq, req, lora_in, lora_res>>

\* lines 121-122: pipe_qwen.set_adapters(["default"], adapter_weights=[lora_scale])
SetAdapters(w) ==
    /\ pc[w] = "set"
    /\ LET r == set_adapters(pipe_qwen, DEFAULT, req[w].lora_scale)
       IN  /\ pipe_qwen' = r.pipe
           /\ pc' = [pc EXCEPT ![w] = IF r.raised THEN "failed" ELSE "pipe"]
           /\ req' = [req EXCEPT ![w].use_lora = ~r.raised]
    /\ UNCHANGED <<tmp_dirs, tmp_next, files, uuid_next, nreq, lora_in, lora_res>>

\* the images of one pipeline call: num_images_per_prompt of them, in order
PipeImages(id, n) == [i \in 1..n |-> [req |-> id, idx |-> i]]

\* lines 124-134: the pipeline runs with the adapters attached at that
\* moment (kept in seen) and gives its images, or raises
InvokePipeline(w) ==
    /\ pc[w] = "pipe"
    /\ \/ /\ req' = [req EXCEPT ![w].seen = pipe_qwen, ![w].invoked = TRUE,
                                ![w].images = PipeImages(req[w].id, req[w].num_images)]
          /\ pc' = [pc EXCEPT ![w] = "save"]
       \/ /\ req' = [req EXCEPT ![w].seen = pipe_qwen, ![w].invoked = TRUE]
          /\ pc' = [pc EXCEPT ![w] = "failed"]
    /\ UNCHANGED <<pipe_qwen, tmp_dirs, tmp_next, files, uuid_next, nreq, lora_in, lora_res>>

\* save_image on the first k images, uuids taken from u on: the paths
SavedPathsBadReversed(images, k, u) == [i \in 1..k |-> FileName(u + k - i, "png")]
SavedPaths(images, k, u) == [i \in 1..k |-> FileName(u + i - 1, "png")]

\* the working directory after img.save of the first k images
WithSaved(fs, images, k, u) ==
    [name \in DOMAIN fs \cup {FileName(u + i - 1, "png") : i \in 1..k} |->
        IF \E i \in 1..k : name = FileName(u + i - 1, "png")
        THEN images[CHOOSE i \in 1..k : name = FileName(u + i - 1, "png")]
        ELSE fs[name]]

\* line 139: image_paths = [save_image(img) for img in images]; a save that
\* raises ends the call with the earlier images saved
SaveImages(w) ==
    /\ pc[w] = "save"
    /\ LET n == Len(req[w].images)
       IN  \/ /\ files' = WithSaved(files, req[w].images, n, uuid_next)
              /\ uuid_next' = uuid_next + n
              /\ req' = [req EXCEPT ![w].image_paths = SavedPaths(req[w].images, n, uuid_next)]
              /\ pc' = [pc EXCEPT ![w] = "zip"]
           \/ \E k \in 0..(n - 1) :
              /\ files' = WithSaved(files, req[w].images, k, uuid_next)
              /\ uuid_next' = uuid_next + k + 1
              /\ pc' = [pc EXCEPT ![w] = "failed"]
              /\ UNCHANGED req
    /\ UNCHANGED <<pipe_qwen, tmp_dirs, tmp_next, nreq, lora_in, lora_res>>

\* f"Img_{i}.png"
ArcName(i) == <<"Img_", i, ".png">>

\* the archive after zipf.write(img_path, arcname=f"Img_{i}.png") for the
\* first k of enumerate(image_paths)
ZipEntries(fs, image_paths, k) ==
    [j \in 1..k |-> [arcname |-> ArcName(j - 1), data |-> fs[image_paths[j]]]]

\* lines 140-146: zip_path stays None unless zip_images
ZipWanted(zip_images) == zip_images

ZipImages(w) ==
    /\ pc[w] = "zip"
    /\ LET zip_name == FileName(uuid_next, "zip")
           n == Len(req[w].image_paths)
       IN  IF ZipWanted(req[w].zip_images)
           THEN /\ uuid_next' = uuid_next + 1
                /\ \/ /\ files' = (zip_name :> ZipEntries(files, req[w].image_paths, n)) @@ files
                      /\ req' = [req EXCEPT ![w].zip_path = zip_name]
                      /\ pc' = [pc EXCEPT ![w] = "cleanup"]
                   \/ \E k \in 0..(n - 1) :
                      /\ files' = (zip_name :> ZipEntries(files, req[w].image_paths, k)) @@ files
                      /\ pc' = [pc EXCEPT ![w] = "failed"]
                      /\ UNCHANGED req
           ELSE /\ pc' = [pc EXCEPT ![w] = "cleanup"]
                /\ UNCHANGED <<files, uuid_next, req>>
    /\ UNCHANGED <<pipe_qwen, tmp_dirs, tmp_next, nreq, lora_in, lora_res>>

\* line 154: the seed of the returned tuple
ReturnedSeedBadInput(r) == r.seed_in
ReturnedSeed(r) == r.seed

\* lines 148-154: the adapters are removed and the results returned
Finish(w) ==
    /\ pc[w] = "cleanup"
    /\ pipe_qwen' = clear_adapters(pipe_qwen)
    /\ req' = [req EXCEPT ![w].result =
                  <<[image_paths |-> req[w].image_paths, seed |-> ReturnedSeed(req[w]),
                     zip_path |-> req[w].zip_path]>>]
    /\ pc' = [pc EXCEPT ![w] = "done"]
    /\ UNCHANGED <<tmp_dirs, tmp_next, files, uuid_next, nreq, lora_in, lora_res>>

\* the hosting framework hands the returned tuple, or the error, to the
\* client; the locals of the call are gone
Deliver(w) ==
    /\ pc[w] \in {"done", "failed"}
    /\ pc' = [pc EXCEPT ![w] = "idle"]
    /\ req' = [req EXCEPT ![w] = NoCall]
    /\ UNCHANGED <<pipe_qwen, tmp_dirs, tmp_next, files, uuid_next, nreq, lora_in, lora_res>>

\* the steps of a call once it has begun
Steps(w) ==
    \/ ClearStart(w)
    \/ LoadLora(w)
    \/ SetAdapters(w)
    \/ InvokePipeline(w)
    \/ SaveImages(w)
    \/ ZipImages(w)
    \/ Finish(w)
    \/ Deliver(w)

NoResolve == [done |-> FALSE, raised |-> FALSE, log |-> <<>>]

\* the process after start-up: the pipeline loaded, no request yet
Init ==
    /\ pipe_qwen = FreshPipe
    /\ tmp_dirs = {}
    /\ tmp_next = 1
    /\ files = <<>>
    /\ uuid_next = 1
    /\ nreq = 0
    /\ pc = [w \in Workers |-> "idle"]
    /\ req = [w \in Workers |-> NoCall]
    /\ lora_in = <<>>
    /\ lora_res = NoResolve

\* serialized requests, every kind of LoRA input
Next ==
    \E w \in Workers :
        \/ Begin(w, QueueAdmits(w), MaxRequests, LoraInputs, ScaleInputs, {0}, {FALSE}, {1}, BOOLEAN)
        \/ Steps(w)

Spec == Init /\ [][Next]_vars

\* serialized requests, every kind of seed, image count and zip flag
NextOut ==
    \E w \in Workers :
        \/ Begin(w, QueueAdmits(w), MaxRequestsOut, {RepoId}, {100}, SeedInputs, BOOLEAN,
                 0..MaxImages, BOOLEAN)
        \/ Steps(w)

SpecOut == Init /\ [][NextOut]_vars

\* requests that start while another one runs
NextConc ==
    \E w \in Workers :
        \/ Begin(w, TRUE, MaxRequestsConc, {NoLora, RepoId}, ScaleInputs, {0}, {FALSE}, {1}, {FALSE})
        \/ Steps(w)

SpecConc == Init /\ [][NextConc]_vars

\* load_lora_opt called once on a fresh pipeline
InitLora ==
    /\ pipe_qwen = FreshPipe
    /\ tmp_dirs = {}
    /\ tmp_next = 1
    /\ files = <<>>
    /\ uuid_next = 1
    /\ nreq = 0
    /\ pc = [w \in Workers |-> "idle"]
    /\ req = [w \in Workers |-> NoCall]
    /\ lora_in \in LoraDomain
    /\ lora_res = NoResolve

ResolveLora ==
    /\ ~lora_res.done
    /\ \E o \in load_lora_opt(pipe_qwen, lora_in, tmp_dirs, tmp_next, 0) :
          /\ pipe_qwen' = o.pipe
          /\ tmp_dirs' = o.dirs
          /\ lora_res' = [done |-> TRUE, raised |-> o.raised, log |-> o.log]
    /\ UNCHANGED <<tmp_next, files, uuid_next, nreq, pc, req, lora_in>>

SpecLora == InitLora /\ [][ResolveLora]_vars

---------------------------------------------------------------------------
(* Properties *)

\* the calls of load_lora_weights in a log
LoadCalls(log) == {i \in DOMAIN log : log[i].op = "load_lora_weights"}
\* the download attempts in a log
FetchCalls(log) == {i \in DOMAIN log : log[i].op \in {"mkdtemp", "requests.get"}}

\* an "owner/name"-shaped identifier that is no web URL, surrounding
\* whitespace aside: one "/", with letters, digits, "-", "_" or "." on both
\* sides of it
IsRegistryId(s) ==
    LET t == Strip(s)
        i == Find(t, <<"/">>)
    IN  /\ i > 1 /\ i < Len(t)
        /\ RFind(t, <<"/">>) = i
        /\ \A k \in DOMAIN t : t[k] \in Letters \cup Digits \cup {"-", "_", ".", "/"}
        /\ ~StartsWith(t, HTTP \o SCHEME_SEP)
        /\ ~StartsWith(t, HTTP \o <<"s">> \o SCHEME_SEP)

\* C1 (as claimed): under serialized requests, at the moment a request
\* begins, before its first statement has run, no adapter is attached to
\* pipe_qwen, whatever way the previous request ended.
C1_NoAdapterAtBegin ==
    \A w \in Workers : pc[w] = "clear" => pipe_qwen.adapters = {}

\* C2: under serialized requests the pipeline never holds more than one
\* adapter, and an attached adapter is named "default".
C2_AtMostOneDefault ==
    /\ Cardinality(pipe_qwen.adapters) <= 1
    /\ \A a \in pipe_qwen.adapters : a.name = DEFAULT

\* C2 witness: the second request has its adapter attached after the first
\* request ended with an exception.
C2_Witness ==
    \E w \in Workers :
        /\ pc[w] = "pipe" /\ req[w].found # {}
        /\ \E a \in pipe_qwen.adapters : a.by = req[w].id

\* the adapter state a call asked for, as its pipeline invocation saw it:
\* nothing attached when the call has no LoRA input, and otherwise exactly
\* the adapter "default" this call loaded, active with this call's scale
SeenOwn(r) ==
    IF WantsLora(r.lora_input)
    THEN /\ \E a \in r.seen.adapters : r.seen.adapters = {a} /\ a.name = DEFAULT /\ a.by = r.id
         /\ r.seen.active = {[name |-> DEFAULT, weight |-> r.lora_scale]}
    ELSE r.seen.adapters = {} /\ r.seen.active = {}

\* C3: a pipeline invocation that ran with another adapter set than its
\* call asked for belongs to a call that overlapped with another call; a
\* call no other call overlapped with runs the pipeline with its own set.
C3_WrongOnlyWhenOverlapped ==
    \A w \in Workers : (req[w].invoked /\ ~req[w].overlapped) => SeenOwn(req[w])

\* C3 witness: two calls overlap and the pipeline of one runs with the
\* adapter the other one loaded.
C3_Witness ==
    \E w \in Workers :
        /\ req[w].invoked /\ req[w].overlapped
        /\ \E a \in req[w].seen.adapters : a.by # req[w].id

\* C4 (as claimed): once load_lora_opt has returned or raised, no temporary
\* directory it created exists.
C4_NoTempDirLeft == lora_res.done => tmp_dirs = {}

\* C5 (as claimed): for a registry-style identifier load_lora_opt calls
\* load_lora_weights exactly once, with the identifier and adapter_name
\* "default", and attempts no download.
C5_RegistryIdLoadedDirectly ==
    (lora_res.done /\ IsRegistryId(lora_in)) =>
        /\ Len(lora_res.log) = 1
        /\ lora_res.log[1] = Call("load_lora_weights", HubRef(Strip(lora_in)))
        /\ FetchCalls(lora_res.log) = {}

\* C6 (as claimed): the seed a request goes on with lies in 0..MAX_SEED.
C6_SeedInRange ==
    \A w \in Workers : pc[w] # "idle" => (0 <= req[w].seed /\ req[w].seed <= MAX_SEED)

\* C7: the seed of a returned result is the seed the generator was seeded
\* with; it is the request's seed when randomize_seed is false and the
\* value drawn, whatever the request's seed, when it is true.
C7_ReturnedSeedIsUsedSeed ==
    \A w \in Workers :
        pc[w] = "done" =>
            LET r == req[w] IN
            /\ r.result[1].seed = r.generator
            /\ ~r.randomize_seed => r.result[1].seed = r.seed_in
            /\ r.randomize_seed => (r.result[1].seed = r.drawn /\ r.drawn \in 0..MAX_SEED)

\* C7 witness: a randomized request returned a seed other than the one sent.
C7_Witness ==
    \E w \in Workers :
        /\ pc[w] = "done" /\ req[w].randomize_seed
        /\ req[w].result[1].seed # req[w].seed_in

\* C8: a returned result holds one path per pipeline image, in the
\* pipeline's order; its zip path is None exactly when zip_images is false;
\* the archive holds Img_0.png .. Img_(n-1).png, Img_i.png being the file
\* at image_paths[i].
C8_PathsAndArchive ==
    \A w \in Workers :
        pc[w] = "done" =>
            LET r == req[w]
                res == r.result[1]
                n == Len(r.images)
            IN  /\ Len(res.image_paths) = n
                /\ \A i \in 1..n :
                      /\ res.image_paths[i] \in DOMAIN files
                      /\ files[res.image_paths[i]] = r.images[i]
                /\ (res.zip_path = NoPath) <=> ~r.zip_images
                /\ r.zip_images =>
                      /\ res.zip_path \in DOMAIN files
                      /\ Len(files[res.zip_path]) = n
                      /\ \A i \in 1..n :
                            /\ files[res.zip_path][i].arcname = <<"Img_", i - 1, ".png">>
                            /\ files[res.zip_path][i].data = files[res.image_paths[i]]

\* C8 witness: a request with several images and an archive returned.
C8_Witness ==
    \E w \in Workers :
        /\ pc[w] = "done" /\ req[w].zip_images
        /\ Len(req[w].images) >= 2
        /\ req[w].id = 2

\* C9 (as claimed): when load_lora_opt returns normally for an input that
\* is not blank, it has called load_lora_weights exactly once and the
\* adapter "default" is attached.
C9_ReturnMeansLoaded ==
    (lora_res.done /\ ~lora_res.raised /\ Strip(lora_in) # <<>>) =>
        /\ Cardinality(LoadCalls(lora_res.log)) = 1
        /\ get_list_adapters(pipe_qwen) = {DEFAULT}

\* C10: under serialized requests every pipeline invocation runs with what
\* its request asked for: nothing attached and LoRA disabled for a blank
\* input, otherwise exactly the adapter "default" loaded by this request,
\* active with the request's lora_scale; no adapter of an earlier request.
C10_InvokedWithOwnAdapters ==
    \A w \in Workers :
        req[w].invoked =>
            /\ SeenOwn(req[w])
            /\ \A a \in req[w].seen.adapters : a.by = req[w].id
            /\ ~WantsLora(req[w].lora_input) => req[w].seen.lora_disabled

\* C10 witness: the pipeline of a request without LoRA input runs after an
\* earlier request failed with its adapter attached.
C10_Witness ==
    \E w \in Workers :
        /\ req[w].invoked /\ req[w].found # {}
        /\ req[w].lora_input = Blank

===========================================================================
